---- MODULE Spec2Model ----
(***************************************************************************)
(* VaultBot (src/bot.py): owner upload sessions, deep-link delivery and    *)
(* persistent auto-delete jobs, as a state machine.                        *)
(*                                                                         *)
(* Every handler is a coroutine: it runs atomically up to its next await   *)
(* and other handlers, timers and tasks interleave there.  One action of   *)
(* this module is one such atomic stretch of one handler.                  *)
(*                                                                         *)
(* Store semantics the handlers rely on:                                   *)
(*  - sessions.id, files.id and delete_jobs.id are INTEGER PRIMARY KEY     *)
(*    columns of SQLite without AUTOINCREMENT: a new row gets the largest  *)
(*    id in the table plus one, so the id of a deleted last row is given   *)
(*    out again;                                                           *)
(*  - SQLite does not enforce the files.session_id foreign key (no         *)
(*    PRAGMA foreign_keys): only the ORM cascade of sess.delete(s) removes *)
(*    the file rows that exist when the session is deleted.                *)
(*                                                                         *)
(* Scheduler semantics (APScheduler date jobs, misfire grace of 1 second): *)
(* a job runs at its run date and leaves the job store; a job found later  *)
(* than the grace time is dropped without running.                         *)
(*                                                                         *)
(* Each handler is an operation that can be invoked with its update; which *)
(* handler the dispatcher hands an update to is outside this model.        *)
(***************************************************************************)
EXTENDS Integers, Sequences, FiniteSets, TLC

\* ------------------------------------------------------------------ bounds
MaxItems == 2        \* messages the owner stages over a run
MaxUploads == 2      \* /upload commands over a run
MaxFinalize == 2     \* accepted retention replies (finalize runs) over a run
MaxStarts == 1       \* /start <payload> requests over a run
MaxForced == 1       \* /setforcechannel additions over a run
MaxTime == 3         \* clock ticks (minutes) over a run
MaxRestarts == 1     \* process restarts over a run
MaxPairStarts == 2   \* /start requests of the run of two concurrent deliveries

\* ------------------------------------------------------- program constants
OWNER_ID == 1
MIN_AUTO_DELETE == 0
MAX_AUTO_DELETE == 10080
ForcedSlice == 3     \* forced[:3], and the cap of /setforcechannel

Users == {OWNER_ID, OWNER_ID + 1}
Tokens == 1 .. MaxFinalize
\* What a stored message is: plain text, or media (photo stands for photo, video
\* and document, which the handlers treat alike).
Kinds == {"text", "photo"}
\* The retention replies tried: a decimal number in tenths ("1.5" is 15), or text
\* that is no number.
Replies ==
  {[number |-> FALSE, tenths |-> 0]} \cup
  {[number |-> TRUE, tenths |-> x] :
     x \in {-10, -5, 15, MAX_AUTO_DELETE * 10 + 9, MAX_AUTO_DELETE * 10 + 10}}
BadMinutes == -1     \* the except branch of the parse
NoSession == [id |-> 0]
NoBuffer == 0

VARIABLES
  sessions,        \* table sessions: id -> row
  files,           \* table files: set of rows
  delete_jobs,     \* table delete_jobs: id -> row
  timers,          \* the scheduler's job store: ids N of the jobs deljob_N
  force_channels,  \* setting force_channels: how many channels are configured
  active_uploads,  \* active_uploads.get(OWNER_ID): a buffer's heap id, or NoBuffer
  bufs,            \* the heap of upload dicts still referenced
  fin,             \* receive_autodel_minutes coroutines: id -> frame
  st,              \* cmd_start coroutines: id -> frame
  ex,              \* execute_delete_job coroutines: sequence of frames
  chat,            \* user chat -> sequence of messages the bot sent there
  nmsg,            \* messages of the owner stored so far (their message_id)
  nup,             \* /upload commands so far
  now,             \* datetime.utcnow(), in minutes
  phase,           \* "up" | "down" | "started" (scheduler started, restore pending)
  nrestart,        \* restarts so far
  was_revoked,     \* history: the session ids /revoke has revoked
  minted,          \* history: the session ids put in a deep link so far
  creator,         \* history: session id -> the finalize (index in fin) that
                   \* inserted the row now in the table; 0: an earlier process;
                   \* -1: a finalize that a stop of the process cut short
  reported,        \* history: the session ids whose link the last reply of a
                   \* finalize gave the owner -> what the backup before it did
  boot_time        \* history: the time of the last scheduler.start()

vars == <<sessions, files, delete_jobs, timers, force_channels, active_uploads,
          bufs, fin, st, ex, chat, nmsg, nup, now, phase, nrestart, was_revoked,
          minted, creator, reported, boot_time>>

storeVars == <<sessions, files>>
uploadVars == <<active_uploads, bufs, nmsg, nup>>
schedVars == <<delete_jobs, timers, ex, now, phase, nrestart>>
histVars == <<was_revoked, minted, creator, reported, boot_time>>

\* ----------------------------------------------------------------- helpers
Max(S) == CHOOSE x \in S : \A y \in S : y <= x

\* SQLite rowid allocation: the largest id in use plus one.
NextRowId(ids) == IF ids = {} THEN 1 ELSE Max(ids) + 1

RECURSIVE SortById(_)
SortById(rows) ==
  IF rows = {} THEN <<>>
  ELSE LET r == CHOOSE x \in rows : \A y \in rows : x.id <= y.id
       IN <<r>> \o SortById(rows \ {r})

\* order_by(FileModel.id)
get_session_files_sync(sid) == SortById({f \in files : f.sid = sid})

is_owner(u) == u = OWNER_ID

\* The upload dicts some name still refers to: the others are garbage.
Live(bs, act, fs) ==
  [b \in {x \in DOMAIN bs : x = act \/ \E t \in DOMAIN fs : fs[t].pc # "done" /\ fs[t].buf = x}
     |-> bs[b]]

Upd(f, k, v) == [x \in DOMAIN f \cup {k} |-> IF x = k THEN v ELSE f[x]]

\* ----------------------------------------------------------------- Init
Init ==
  /\ sessions = << >>
  /\ files = {}
  /\ delete_jobs = << >>
  /\ timers = {}
  /\ force_channels = 0
  /\ active_uploads = NoBuffer
  /\ bufs = << >>
  /\ fin = << >>
  /\ st = << >>
  /\ ex = << >>
  /\ chat = [u \in Users |-> << >>]
  /\ nmsg = 0
  /\ nup = 0
  /\ now = 0
  /\ phase = "up"
  /\ nrestart = 0
  /\ was_revoked = {}
  /\ minted = {}
  /\ creator = << >>
  /\ reported = << >>
  /\ boot_time = 0

\* ------------------------------------------------------------ upload flow
\* Mutant: /upload keeps what the owner's current dict holds.
StartUploadKeeping(owner_id, exclude_text) ==
  IF active_uploads = NoBuffer
  THEN [messages |-> << >>, exclude_text |-> exclude_text,
        finalize_requested |-> FALSE, protect_choice |-> -1]
  ELSE [bufs[active_uploads] EXCEPT !.exclude_text = exclude_text]

\* The dict start_upload_session puts under active_uploads[owner_id].
start_upload_session(owner_id, exclude_text) ==
  [messages |-> << >>, exclude_text |-> exclude_text,
   finalize_requested |-> FALSE, protect_choice |-> -1]

\* /upload [exclude_text]
cmd_upload(u, exclude_text) ==
  /\ phase = "up"
  /\ nup < MaxUploads
  /\ IF ~is_owner(u)
     THEN UNCHANGED vars
     ELSE /\ nup' = nup + 1
          /\ active_uploads' = nup + 1
          /\ bufs' = Live(Upd(bufs, nup + 1, start_upload_session(OWNER_ID, exclude_text)),
                          nup + 1, fin)
          /\ UNCHANGED <<histVars, storeVars, schedVars, force_channels, fin, st, chat, nmsg>>

\* /e
cmd_cancel(u) ==
  /\ phase = "up"
  /\ IF ~is_owner(u)
     THEN UNCHANGED vars
     ELSE /\ active_uploads' = NoBuffer
          /\ bufs' = Live(bufs, NoBuffer, fin)
          /\ UNCHANGED <<histVars, storeVars, schedVars, force_channels, fin, st, chat, nmsg, nup>>

\* /d
cmd_finalize(u) ==
  /\ phase = "up"
  /\ IF ~is_owner(u) \/ active_uploads = NoBuffer
     THEN UNCHANGED vars
     ELSE /\ bufs' = [bufs EXCEPT ![active_uploads].finalize_requested = TRUE]
          /\ UNCHANGED <<histVars, storeVars, schedVars, force_channels, active_uploads, fin, st,
                         chat, nmsg, nup>>

\* The Protect ON / Protect OFF buttons, pressed by u.  The handler does not
\* look at who pressed the button, nor for which prompt.
choose_protect(u, choice) ==
  /\ phase = "up"
  /\ IF active_uploads = NoBuffer
     THEN UNCHANGED vars
     ELSE /\ bufs' = [bufs EXCEPT ![active_uploads].protect_choice = choice]
          /\ UNCHANGED <<histVars, storeVars, schedVars, force_channels, active_uploads, fin, st,
                         chat, nmsg, nup>>

\* Whether receive_autodel_minutes takes a message of u (its filter).
FinalizeFilter(u, kind) ==
  /\ u = OWNER_ID
  /\ kind = "text"
  /\ active_uploads # NoBuffer
  /\ bufs[active_uploads].finalize_requested

\* Mutant: the exclude_text flag of the session is not looked at.
CatchAllKeepingText(u, kind) ==
  /\ phase = "up"
  /\ nmsg < MaxItems
  /\ ~FinalizeFilter(u, kind)
  /\ IF u # OWNER_ID \/ active_uploads = NoBuffer
     THEN UNCHANGED vars
     ELSE /\ nmsg' = nmsg + 1
          /\ bufs' = [bufs EXCEPT ![active_uploads].messages =
                         Append(@, [id |-> nmsg + 1, kind |-> kind])]
          /\ UNCHANGED <<histVars, storeVars, schedVars, force_channels, active_uploads, fin, st,
                         chat, nup>>

\* Mutant: a message of the owner with no session active starts one
\* (active_uploads.setdefault) and is stored in it.
CatchAllCreatingBuffer(u, kind) ==
  /\ phase = "up"
  /\ nmsg < MaxItems
  /\ ~FinalizeFilter(u, kind)
  /\ IF u # OWNER_ID
     THEN UNCHANGED vars
     ELSE /\ nmsg' = nmsg + 1
          /\ active_uploads' = IF active_uploads = NoBuffer THEN nup + 1 ELSE active_uploads
          /\ bufs' = IF active_uploads = NoBuffer
                     THEN Upd(bufs, nup + 1,
                              [start_upload_session(OWNER_ID, FALSE) EXCEPT
                                 !.messages = <<[id |-> nmsg + 1, kind |-> kind]>>])
                     ELSE [bufs EXCEPT ![active_uploads].messages =
                             Append(@, [id |-> nmsg + 1, kind |-> kind])]
          /\ UNCHANGED <<histVars, storeVars, schedVars, force_channels, fin, st, chat, nup>>

\* Any other message: stored when the owner has an active upload session.
catch_all_store_uploads(u, kind) ==
  /\ phase = "up"
  /\ nmsg < MaxItems
  /\ ~FinalizeFilter(u, kind)
  /\ IF \/ u # OWNER_ID
        \/ active_uploads = NoBuffer
        \/ (kind = "text" /\ bufs[active_uploads].exclude_text)
     THEN UNCHANGED vars
     ELSE /\ nmsg' = nmsg + 1
          /\ bufs' = [bufs EXCEPT ![active_uploads].messages =
                         Append(@, [id |-> nmsg + 1, kind |-> kind])]
          /\ UNCHANGED <<histVars, storeVars, schedVars, force_channels, active_uploads, fin, st,
                         chat, nup>>

\* Mutant: no check of the range.
ParseMinutesUnchecked(txt) ==
  IF ~txt.number THEN BadMinutes
  ELSE IF txt.tenths >= 0 THEN txt.tenths \div 10 ELSE -((-txt.tenths) \div 10)

\* mins = int(float(txt)): float() fails on text that is no number, int()
\* truncates toward zero; then the range check.
ParseMinutes(txt) ==
  IF ~txt.number THEN BadMinutes
  ELSE LET mins == IF txt.tenths >= 0 THEN txt.tenths \div 10 ELSE -((-txt.tenths) \div 10)
       IN IF mins < MIN_AUTO_DELETE \/ mins > MAX_AUTO_DELETE THEN BadMinutes ELSE mins

\* receive_autodel_minutes, up to the await of the header message: hdr is what
\* bot.send_message(upload_channel, ...) will answer.
receive_autodel_minutes(txt, hdr) ==
  /\ phase = "up"
  /\ FinalizeFilter(OWNER_ID, "text")
  /\ Len(fin) < MaxFinalize
  /\ IF ParseMinutes(txt) = BadMinutes \/ hdr # "ok"
     THEN UNCHANGED vars
     ELSE /\ fin' = Append(fin, [pc |-> "insert", buf |-> active_uploads,
                                 protect |-> IF bufs[active_uploads].protect_choice = -1
                                             THEN 0 ELSE bufs[active_uploads].protect_choice,
                                 mins |-> ParseMinutes(txt), sid |-> 0, idx |-> 1,
                                 failed |-> {}])
          /\ UNCHANGED <<histVars, storeVars, schedVars, force_channels, uploadVars, st, chat>>

\* insert_session_sync, on the table tbl
insert_session_sync(tbl, owner_id, protect, auto_delete_minutes) ==
  LET id == NextRowId(DOMAIN tbl)
  IN Upd(tbl, id, [id |-> id, owner_id |-> owner_id, protect |-> protect,
                   auto_delete_minutes |-> auto_delete_minutes, revoked |-> FALSE])

\* The payload of the deep link of session session_id:
\* f"https://t.me/{me.username}?start={session_id}", which /start reads back
\* with int(args).
DeepLinkToken(session_id) == session_id

\* ... the header was sent: session_id = await insert_session(...)
FinInsert(t) ==
  /\ phase = "up"
  /\ t \in DOMAIN fin /\ fin[t].pc = "insert"
  /\ sessions' = insert_session_sync(sessions, OWNER_ID, fin[t].protect = 1, fin[t].mins)
  /\ fin' = [fin EXCEPT ![t].pc = "loop", ![t].sid = NextRowId(DOMAIN sessions)]
  /\ minted' = minted \cup {NextRowId(DOMAIN sessions)}
  /\ creator' = Upd(creator, NextRowId(DOMAIN sessions), t)
  /\ UNCHANGED <<was_revoked, reported, boot_time, files, schedVars, force_channels, uploadVars, st,
                 chat>>

\* The file_type the finalize loop stores for a message.
FileType(msg, exclude_text) ==
  IF msg.kind = "text" /\ ~exclude_text THEN "text"
  ELSE IF msg.kind = "photo" THEN "photo"
  ELSE "other"

\* add_file_sync, on the table tbl
add_file_sync(tbl, session_id, file_type, original_msg_id) ==
  tbl \cup {[id |-> NextRowId({f.id : f \in tbl}), sid |-> session_id,
             file_type |-> file_type, original_msg_id |-> original_msg_id]}

\* One turn of "for msg in messages": the copy into the upload channel answers
\* ok or fails; a failure is logged and the loop goes on.
FinCopy(t, ok) ==
  /\ phase = "up"
  /\ t \in DOMAIN fin /\ fin[t].pc = "loop"
  /\ fin[t].idx <= Len(bufs[fin[t].buf].messages)
  /\ LET msg == bufs[fin[t].buf].messages[fin[t].idx]
     IN IF ok
        THEN /\ files' = add_file_sync(files, fin[t].sid,
                                       FileType(msg, bufs[fin[t].buf].exclude_text), msg.id)
             /\ fin' = [fin EXCEPT ![t].idx = @ + 1]
        ELSE /\ files' = files
             /\ fin' = [fin EXCEPT ![t].idx = @ + 1, ![t].failed = @ \cup {msg.id}]
  /\ UNCHANGED <<histVars, sessions, schedVars, force_channels, uploadVars, st, chat>>

\* The loop ends on the list as it is then; update_deeplink_sync and the backup
\* are awaited next.
FinLoopExit(t) ==
  /\ phase = "up"
  /\ t \in DOMAIN fin /\ fin[t].pc = "loop"
  /\ fin[t].idx > Len(bufs[fin[t].buf].messages)
  /\ fin' = [fin EXCEPT ![t].pc = "end"]
  /\ UNCHANGED <<histVars, storeVars, schedVars, force_channels, uploadVars, st, chat>>

\* A coroutine that has returned: its frame is gone.
DoneFrame == [pc |-> "done", buf |-> NoBuffer, protect |-> 0, mins |-> 0, sid |-> 0,
              idx |-> 0, failed |-> {}]

\* Mutant: a backup that fails ends the finalize in the outer except.
FinEndBackupFatal(t, backup) ==
  /\ phase = "up"
  /\ t \in DOMAIN fin /\ fin[t].pc = "end"
  /\ backup \in {"sent", "failed"}
  /\ fin' = [fin EXCEPT ![t] = DoneFrame]
  /\ active_uploads' = IF backup = "sent" THEN NoBuffer ELSE active_uploads
  /\ bufs' = Live(bufs, active_uploads', fin')
  /\ reported' = IF backup = "sent" THEN Upd(reported, fin[t].sid, backup) ELSE reported
  /\ UNCHANGED <<was_revoked, minted, creator, boot_time, storeVars, schedVars,
                 force_channels, st, chat, nmsg, nup>>

\* update_deeplink_sync worked; backup_db_to_channel uploads the store file
\* ("sent") or fails ("failed": it logs what it catches and returns None, and
\* the finalize has a try of its own around the call); then
\* cancel_upload_session(OWNER_ID) and the reply with the deep link.
FinEnd(t, backup) ==
  /\ phase = "up"
  /\ t \in DOMAIN fin /\ fin[t].pc = "end"
  /\ backup \in {"sent", "failed"}
  /\ fin' = [fin EXCEPT ![t] = DoneFrame]
  /\ active_uploads' = NoBuffer
  /\ bufs' = Live(bufs, NoBuffer, fin')
  /\ reported' = Upd(reported, fin[t].sid, backup)
  /\ UNCHANGED <<was_revoked, minted, creator, boot_time, storeVars, schedVars,
                 force_channels, st, chat, nmsg, nup>>

\* insert_session raises (the store write fails): the outer except logs it and
\* answers "An error occurred during finalization."
FinInsertFails(t) ==
  /\ phase = "up"
  /\ t \in DOMAIN fin /\ fin[t].pc = "insert"
  /\ fin' = [fin EXCEPT ![t] = DoneFrame]
  /\ bufs' = Live(bufs, active_uploads, fin')
  /\ UNCHANGED <<histVars, storeVars, schedVars, force_channels, active_uploads, st, chat,
                 nmsg, nup>>

\* update_deeplink_sync raises after the loop: the same outer except, before
\* cancel_upload_session is reached.
FinUpdateFails(t) ==
  /\ phase = "up"
  /\ t \in DOMAIN fin /\ fin[t].pc = "end"
  /\ fin' = [fin EXCEPT ![t] = DoneFrame]
  /\ bufs' = Live(bufs, active_uploads, fin')
  /\ UNCHANGED <<histVars, storeVars, schedVars, force_channels, active_uploads, st, chat,
                 nmsg, nup>>

\* ------------------------------------------------------------------ admin
set_session_revoked_sync(session_id, revoked) ==
  IF session_id \in DOMAIN sessions
  THEN [sessions EXCEPT ![session_id].revoked = revoked]
  ELSE sessions

\* /revoke <id>
cmd_revoke(u, sid) ==
  /\ phase = "up"
  /\ IF ~is_owner(u)
     THEN UNCHANGED vars
     ELSE /\ sessions' = set_session_revoked_sync(sid, TRUE)
          /\ was_revoked' = IF sid \in DOMAIN sessions THEN was_revoked \cup {sid}
                            ELSE was_revoked
          /\ UNCHANGED <<files, schedVars, force_channels, uploadVars, fin, st, chat,
                         minted, creator, reported, boot_time>>

\* Mutant: /del_session also takes the timers of the session's jobs out of the
\* job store.
CmdDelSessionCancellingJobs(u, sid) ==
  /\ phase = "up"
  /\ IF ~is_owner(u) \/ sid \notin DOMAIN sessions
     THEN UNCHANGED vars
     ELSE /\ sessions' = [x \in DOMAIN sessions \ {sid} |-> sessions[x]]
          /\ files' = {f \in files : f.sid # sid}
          /\ creator' = [x \in DOMAIN creator \ {sid} |-> creator[x]]
          /\ timers' = {j \in timers : delete_jobs[j].session_id # sid}
          /\ UNCHANGED <<was_revoked, minted, reported, boot_time, delete_jobs, ex, now,
                         phase, nrestart, force_channels, uploadVars, fin, st, chat>>

\* /del_session <id>: sess.delete(s) with the ORM cascade over s.files.
cmd_del_session(u, sid) ==
  /\ phase = "up"
  /\ IF ~is_owner(u) \/ sid \notin DOMAIN sessions
     THEN UNCHANGED vars
     ELSE /\ sessions' = [x \in DOMAIN sessions \ {sid} |-> sessions[x]]
          /\ files' = {f \in files : f.sid # sid}
          /\ creator' = [x \in DOMAIN creator \ {sid} |-> creator[x]]
          /\ UNCHANGED <<was_revoked, minted, reported, boot_time, schedVars, force_channels,
                         uploadVars, fin, st, chat>>

\* /setforcechannel <name> <link> (a new entry), or /setforcechannel none
cmd_setforcechannel(u, none) ==
  /\ phase = "up"
  /\ IF ~is_owner(u) \/ (~none /\ force_channels >= ForcedSlice)
     THEN UNCHANGED vars
     ELSE /\ ~none => force_channels < MaxForced
          /\ force_channels' = IF none THEN 0 ELSE force_channels + 1
          /\ UNCHANGED <<histVars, storeVars, schedVars, uploadVars, fin, st, chat>>

\* ---------------------------------------------------------------- delivery
\* What one required channel answers in a request: get_chat_member gives a
\* member, or one who left or was kicked ("left"), or raises BadRequest, or raises
\* anything else ("error"); or resolve_channel_link gives None ("unresolved").
Lookups == {"member", "left", "BadRequest", "error", "unresolved"}

Min(a, b) == IF a <= b THEN a ELSE b

\* for ch in forced[:3]: ... , from channel i on; acc is (blocked, how many
\* unresolved).
RECURSIVE GateLoop(_, _, _)
GateLoop(outs, i, acc) ==
  IF i > Len(outs) THEN acc
  ELSE CASE outs[i] = "unresolved" ->
              GateLoop(outs, i + 1, [acc EXCEPT !.unresolved = @ + 1])
         [] outs[i] = "member" -> GateLoop(outs, i + 1, acc)
         [] outs[i] \in {"left", "BadRequest"} -> [acc EXCEPT !.blocked = TRUE]
         [] OTHER -> GateLoop(outs, i + 1, [acc EXCEPT !.unresolved = @ + 1])

Gate(outs) == GateLoop(outs, 1, [blocked |-> FALSE, unresolved |-> 0])

\* Mutant: the "if unresolved: ... return" is missing.
GateVerdictFailOpen(outs) ==
  IF Gate(outs).blocked THEN "mustjoin" ELSE "files"

\* Mutant: the "if blocked: ... return" is missing.
GateVerdictNoBlock(outs) ==
  IF Gate(outs).unresolved > 0 THEN "unverifiable" ELSE "files"

\* if blocked: ... return; if unresolved: ... return; then the delivery.
GateVerdict(outs) ==
  IF Gate(outs).blocked THEN "mustjoin"
  ELSE IF Gate(outs).unresolved > 0 THEN "unverifiable"
  ELSE "files"

get_session_sync(session_id) ==
  IF session_id \in DOMAIN sessions THEN sessions[session_id] ELSE NoSession

\* /start <payload>, up to the answer of get_session: refused when there is no
\* such session or it is revoked.
StartRequest(u, token) ==
  /\ phase = "up"
  /\ LET s == get_session_sync(token)
     IN st' = Append(st, [user |-> u, token |-> token, s |-> s,
                          pc |-> IF s = NoSession \/ s.revoked THEN "refused" ELSE "gate",
                          look |-> << >>, vault |-> FALSE, files |-> << >>, idx |-> 1,
                          delivered |-> << >>, job |-> 0,
                          retry |-> [pressed |-> FALSE, look |-> << >>]])
  /\ UNCHANGED <<histVars, storeVars, schedVars, force_channels, uploadVars, fin, chat>>

\* The /start requests of a run, MaxStarts at most.
cmd_start(u, token) ==
  /\ Len(st) < MaxStarts
  /\ StartRequest(u, token)

\* The membership gate over the channels configured when the request reads them.
StartGate(r) ==
  /\ phase = "up"
  /\ r \in DOMAIN st /\ st[r].pc = "gate"
  /\ \E outs \in [1 .. Min(force_channels, ForcedSlice) -> Lookups] :
       st' = [st EXCEPT ![r].look = outs, ![r].pc = GateVerdict(outs)]
  /\ UNCHANGED <<histVars, storeVars, schedVars, force_channels, uploadVars, fin, chat>>

\* The Retry button under the answer of request r, pressed (for the first time)
\* by its user: the handler answers the press and sends the advice to re-open
\* the deep link.  outs is what the required channels would answer for this
\* user now; the handler does not ask them.
cb_retry_handler(r, outs) ==
  /\ phase = "up"
  /\ r \in DOMAIN st /\ st[r].pc \in {"mustjoin", "unverifiable"}
  /\ ~st[r].retry.pressed
  /\ outs \in [1 .. Min(force_channels, ForcedSlice) -> Lookups]
  /\ st' = [st EXCEPT ![r].retry = [pressed |-> TRUE, look |-> outs]]
  /\ UNCHANGED <<histVars, storeVars, schedVars, force_channels, uploadVars, fin, chat>>

\* files = await get_session_files(session_id); then the vault chat id: vault is
\* whether one is known (UPLOAD_CHANNEL_ID, or the stored link resolved).
StartFiles(r, vault) ==
  /\ phase = "up"
  /\ r \in DOMAIN st /\ st[r].pc = "files"
  /\ st' = [st EXCEPT ![r].files = get_session_files_sync(st[r].token),
                      ![r].vault = vault, ![r].pc = "send"]
  /\ UNCHANGED <<histVars, storeVars, schedVars, force_channels, uploadVars, fin, chat>>

\* Mutant: the owner is not exempted.
ProtectContentNoExemption(s, u) == s.protect

\* protect_content_value
ProtectContent(s, u) == s.protect /\ ~(u = s.owner_id)

\* What the loop body sends for file f when the transport answers res ("copy":
\* copy_message worked; "raw": a send by file id or text worked, after a failed
\* copy if one was tried; "fail": nothing was sent).  Only copy_message is given
\* protect_content.
SendFile(f, vault, res, protect_content_value) ==
  IF f.file_type = "text"
  THEN IF res = "fail" THEN [sent |-> FALSE]
       ELSE [sent |-> TRUE, path |-> "text", protected |-> FALSE]
  ELSE IF vault /\ res = "copy"
       THEN [sent |-> TRUE, path |-> "copy", protected |-> protect_content_value]
       ELSE IF res = "fail" THEN [sent |-> FALSE]
            ELSE [sent |-> TRUE, path |-> "raw", protected |-> FALSE]

\* Mutant: a send that fails ends the request (the outer except of the handler).
StartSendAborting(r, res) ==
  /\ phase = "up"
  /\ r \in DOMAIN st /\ st[r].pc = "send"
  /\ st[r].idx <= Len(st[r].files)
  /\ LET f == st[r].files[st[r].idx]
         u == st[r].user
         m == SendFile(f, st[r].vault, res, ProtectContent(st[r].s, u))
     IN /\ res = "copy" => (f.file_type # "text" /\ st[r].vault)
        /\ IF m.sent
           THEN /\ chat' = [chat EXCEPT ![u] =
                              Append(@, [req |-> r, file |-> f.id, item |-> f.original_msg_id,
                                         path |-> m.path, protected |-> m.protected,
                                         deleted |-> FALSE])]
                /\ st' = [st EXCEPT ![r].idx = @ + 1,
                                    ![r].delivered = Append(@, Len(chat[u]) + 1)]
           ELSE /\ chat' = chat
                /\ st' = [st EXCEPT ![r].pc = "done"]
  /\ UNCHANGED <<histVars, storeVars, schedVars, force_channels, uploadVars, fin>>

\* One turn of "for f in files".
StartSend(r, res) ==
  /\ phase = "up"
  /\ r \in DOMAIN st /\ st[r].pc = "send"
  /\ st[r].idx <= Len(st[r].files)
  /\ LET f == st[r].files[st[r].idx]
         u == st[r].user
         m == SendFile(f, st[r].vault, res, ProtectContent(st[r].s, u))
     IN /\ res = "copy" => (f.file_type # "text" /\ st[r].vault)
        /\ IF m.sent
           THEN /\ chat' = [chat EXCEPT ![u] =
                              Append(@, [req |-> r, file |-> f.id, item |-> f.original_msg_id,
                                         path |-> m.path, protected |-> m.protected,
                                         deleted |-> FALSE])]
                /\ st' = [st EXCEPT ![r].idx = @ + 1,
                                    ![r].delivered = Append(@, Len(chat[u]) + 1)]
           ELSE /\ chat' = chat
                /\ st' = [st EXCEPT ![r].idx = @ + 1]
  /\ UNCHANGED <<histVars, storeVars, schedVars, force_channels, uploadVars, fin>>

\* Mutant: the job is written for the owner's chat.
AddDeleteJobOwnerChat(session_id, target_chat_id, message_ids, run_at) ==
  LET id == NextRowId(DOMAIN delete_jobs)
  IN Upd(delete_jobs, id, [id |-> id, session_id |-> session_id,
                           target_chat_id |-> OWNER_ID, message_ids |-> message_ids,
                           run_at |-> run_at, status |-> "scheduled"])

add_delete_job_sync(session_id, target_chat_id, message_ids, run_at) ==
  LET id == NextRowId(DOMAIN delete_jobs)
  IN Upd(delete_jobs, id, [id |-> id, session_id |-> session_id,
                           target_chat_id |-> target_chat_id, message_ids |-> message_ids,
                           run_at |-> run_at, status |-> "scheduled"])

\* Mutant: delivered_ids is one list shared by all requests.
StartJobSharedIds(r) ==
  /\ phase = "up"
  /\ r \in DOMAIN st /\ st[r].pc = "send"
  /\ st[r].idx > Len(st[r].files)
  /\ LET shared == IF r = 1 /\ Len(st) > 1 THEN st[1].delivered \o st[2].delivered
                   ELSE IF r = 2 THEN st[2].delivered \o st[1].delivered
                   ELSE st[r].delivered
     IN IF st[r].s.auto_delete_minutes # 0 /\ shared # << >>
        THEN /\ delete_jobs' = add_delete_job_sync(st[r].token, st[r].user, shared,
                                                   now + st[r].s.auto_delete_minutes)
             /\ st' = [st EXCEPT ![r].pc = "arm", ![r].job = NextRowId(DOMAIN delete_jobs)]
        ELSE /\ delete_jobs' = delete_jobs
             /\ st' = [st EXCEPT ![r].pc = "done"]
  /\ UNCHANGED <<histVars, storeVars, timers, ex, now, phase, nrestart, force_channels, uploadVars,
                 fin, chat>>

\* After the loop: the delete job is written when the session has minutes and
\* something was delivered.
StartJob(r) ==
  /\ phase = "up"
  /\ r \in DOMAIN st /\ st[r].pc = "send"
  /\ st[r].idx > Len(st[r].files)
  /\ IF st[r].s.auto_delete_minutes # 0 /\ st[r].delivered # << >>
     THEN /\ delete_jobs' = add_delete_job_sync(st[r].token, st[r].user, st[r].delivered,
                                                now + st[r].s.auto_delete_minutes)
          /\ st' = [st EXCEPT ![r].pc = "arm", ![r].job = NextRowId(DOMAIN delete_jobs)]
     ELSE /\ delete_jobs' = delete_jobs
          /\ st' = [st EXCEPT ![r].pc = "done"]
  /\ UNCHANGED <<histVars, storeVars, timers, ex, now, phase, nrestart, force_channels, uploadVars,
                 fin, chat>>

\* scheduler.add_job(execute_delete_job, 'date', ..., id=f"deljob_{job_db_id}")
StartArm(r) ==
  /\ phase = "up"
  /\ r \in DOMAIN st /\ st[r].pc = "arm"
  /\ timers' = timers \cup {st[r].job}
  /\ st' = [st EXCEPT ![r].pc = "done"]
  /\ UNCHANGED <<histVars, storeVars, delete_jobs, ex, now, phase, nrestart, force_channels,
                 uploadVars, fin, chat>>

\* ------------------------------------------------------------- scheduler
\* The clock.  While the process is up the scheduler wakes at each run date, so
\* time does not pass a due timer; it runs on, past MaxTime if need be, until
\* the last scheduled job is due.  scheduler.add_job follows the insert of the job
\* row at once, so no minute passes between the two.
Tick ==
  /\ phase \in {"up", "down"}
  /\ \/ now < MaxTime
     \/ \E j \in DOMAIN delete_jobs :
          delete_jobs[j].status = "scheduled" /\ delete_jobs[j].run_at > now
  /\ phase = "up" => /\ \A j \in timers : delete_jobs[j].run_at > now
                     /\ \A r \in DOMAIN st : st[r].pc # "arm"
  /\ now' = now + 1
  /\ UNCHANGED <<histVars, storeVars, delete_jobs, timers, ex, phase, nrestart,
                 force_channels, uploadVars, fin, st, chat>>

\* The frame of execute_delete_job(job_id, job_row): the job row is the copy
\* made when the job was armed or the pending jobs were listed.
ExecFrame(j, src) ==
  [job |-> j, target_chat_id |-> delete_jobs[j].target_chat_id,
   message_ids |-> delete_jobs[j].message_ids, idx |-> 1, pc |-> "run",
   src |-> src, boot |-> nrestart]

\* The scheduler runs the date job deljob_j at its run date and drops it from
\* the job store; a job it finds past the misfire grace time it only drops.
TimerFire(j) ==
  /\ phase = "up"
  /\ j \in timers
  /\ delete_jobs[j].run_at <= now
  /\ timers' = timers \ {j}
  /\ ex' = IF delete_jobs[j].run_at = now THEN Append(ex, ExecFrame(j, "timer")) ELSE ex
  /\ UNCHANGED <<histVars, storeVars, delete_jobs, now, phase, nrestart, force_channels,
                 uploadVars, fin, st, chat>>

\* Mutant: a delete call that raises ends the execution (the outer except).
ExecDeleteAborting(k, deleted) ==
  /\ phase \in {"up", "started"}
  /\ k \in DOMAIN ex /\ ex[k].pc = "run"
  /\ ex[k].idx <= Len(ex[k].message_ids)
  /\ ex' = IF deleted THEN [ex EXCEPT ![k].idx = @ + 1] ELSE [ex EXCEPT ![k].pc = "done"]
  /\ chat' = IF deleted
             THEN [chat EXCEPT ![ex[k].target_chat_id][ex[k].message_ids[ex[k].idx]].deleted
                                  = TRUE]
             ELSE chat
  /\ UNCHANGED <<histVars, storeVars, delete_jobs, timers, now, phase, nrestart,
                 force_channels, uploadVars, fin, st>>

\* One turn of "for mid in msg_ids": bot.delete_message deletes the message, or
\* raises (message gone, chat not found, bot blocked, ...), which is swallowed.
ExecDelete(k, deleted) ==
  /\ phase \in {"up", "started"}
  /\ k \in DOMAIN ex /\ ex[k].pc = "run"
  /\ ex[k].idx <= Len(ex[k].message_ids)
  /\ ex' = [ex EXCEPT ![k].idx = @ + 1]
  /\ chat' = IF deleted
             THEN [chat EXCEPT ![ex[k].target_chat_id][ex[k].message_ids[ex[k].idx]].deleted
                                  = TRUE]
             ELSE chat
  /\ UNCHANGED <<histVars, storeVars, delete_jobs, timers, now, phase, nrestart,
                 force_channels, uploadVars, fin, st>>

\* Mutant: the write flips the status.
MarkJobFlipped(job_id) ==
  IF job_id \in DOMAIN delete_jobs
  THEN [delete_jobs EXCEPT ![job_id].status = IF @ = "done" THEN "scheduled" ELSE "done"]
  ELSE delete_jobs

mark_job_done_sync(job_id) ==
  IF job_id \in DOMAIN delete_jobs
  THEN [delete_jobs EXCEPT ![job_id].status = "done"]
  ELSE delete_jobs

\* Mutant: the execution also removes the session the job was made for.
ExecDoneDroppingSession(k) ==
  /\ phase \in {"up", "started"}
  /\ k \in DOMAIN ex /\ ex[k].pc = "run"
  /\ ex[k].idx > Len(ex[k].message_ids)
  /\ delete_jobs' = mark_job_done_sync(ex[k].job)
  /\ timers' = timers \ {ex[k].job}
  /\ ex' = [ex EXCEPT ![k].pc = "done"]
  /\ sessions' = [x \in DOMAIN sessions \ {delete_jobs[ex[k].job].session_id} |-> sessions[x]]
  /\ UNCHANGED <<histVars, files, now, phase, nrestart, force_channels, uploadVars,
                 fin, st, chat>>

\* After the loop: mark_job_done, then scheduler.remove_job(f"deljob_{job_id}").
ExecDone(k) ==
  /\ phase \in {"up", "started"}
  /\ k \in DOMAIN ex /\ ex[k].pc = "run"
  /\ ex[k].idx > Len(ex[k].message_ids)
  /\ delete_jobs' = mark_job_done_sync(ex[k].job)
  /\ timers' = timers \ {ex[k].job}
  /\ ex' = [ex EXCEPT ![k].pc = "done"]
  /\ UNCHANGED <<histVars, storeVars, now, phase, nrestart, force_channels, uploadVars,
                 fin, st, chat>>

\* The process stops: every coroutine and the upload sessions in memory are lost,
\* the two SQLite files stay.  keep is whether the job store file (JOB_DB_PATH)
\* is still there at the next start.
Crash(keep) ==
  /\ phase \in {"up", "started"}
  /\ nrestart < MaxRestarts
  /\ nrestart' = nrestart + 1
  /\ phase' = "down"
  /\ timers' = IF keep THEN timers ELSE {}
  /\ ex' = [k \in DOMAIN ex |-> IF ex[k].pc = "run" THEN [ex[k] EXCEPT !.pc = "killed"]
                                 ELSE ex[k]]
  /\ st' = [r \in DOMAIN st |->
              IF st[r].pc \in {"gate", "files", "send", "arm"}
              THEN [st[r] EXCEPT !.pc = "killed"] ELSE st[r]]
  /\ fin' = [t \in DOMAIN fin |-> DoneFrame]
  /\ active_uploads' = NoBuffer
  /\ bufs' = << >>
  /\ creator' = [sid \in DOMAIN creator |->
                   IF creator[sid] \in DOMAIN fin /\ fin[creator[sid]].pc # "done"
                   THEN -1 ELSE creator[sid]]
  /\ UNCHANGED <<was_revoked, minted, reported, boot_time, storeVars, delete_jobs, now,
                 force_channels,
                 chat, nmsg, nup>>

\* on_startup: scheduler.start().  The scheduler takes every job of its store
\* that is due out of the store; it runs one only within the misfire grace time
\* of one second of its run date (run: the jobs it runs), which cannot be when a
\* minute or more has passed.
SchedulerStart(run) ==
  /\ phase = "down"
  /\ LET due == {j \in timers : delete_jobs[j].run_at <= now}
     IN /\ run \subseteq {j \in due : delete_jobs[j].run_at = now}
        /\ timers' = timers \ due
        /\ ex' = ex \o [i \in 1 .. Cardinality(run) |->
                          ExecFrame(SortById({[id |-> j] : j \in run})[i].id, "jobstore")]
  /\ phase' = "started"
  /\ boot_time' = now
  /\ UNCHANGED <<was_revoked, minted, creator, reported, storeVars, delete_jobs, now, nrestart,
                 force_channels,
                 uploadVars, fin, st, chat>>

\* Mutant: the query has no filter on the status.
ListEveryJob == DOMAIN delete_jobs

list_pending_jobs_sync ==
  {j \in DOMAIN delete_jobs : delete_jobs[j].status = "scheduled"}

\* Mutant: a pending job that is due is not run at startup.
RestoreRunNone(pending) == {}

\* if run_at <= datetime.utcnow(): asyncio.create_task(execute_delete_job(...))
RestoreRun(pending) == {j \in pending : delete_jobs[j].run_at <= now}

\* Mutant: the restore runs the pending jobs that are due and arms no timer.
RestoreWithoutRearm ==
  /\ phase = "started"
  /\ LET pending == list_pending_jobs_sync
         due == RestoreRun(pending)
     IN /\ ex' = ex \o [i \in 1 .. Cardinality(due) |->
                          ExecFrame(SortById({[id |-> j] : j \in due})[i].id, "restore")]
        /\ timers' = timers
  /\ phase' = "up"
  /\ UNCHANGED <<histVars, storeVars, delete_jobs, now, nrestart, force_channels,
                 uploadVars, fin, st, chat>>

\* on_startup: restore_pending_jobs_and_schedule().  A pending job that is due
\* is run at once as a task; another is added to the scheduler as deljob_j (an
\* add that fails on a job store that already holds deljob_j, which is left).
restore_pending_jobs_and_schedule ==
  /\ phase = "started"
  /\ LET pending == list_pending_jobs_sync
         due == RestoreRun(pending)
     IN /\ ex' = ex \o [i \in 1 .. Cardinality(due) |->
                          ExecFrame(SortById({[id |-> j] : j \in due})[i].id, "restore")]
        /\ timers' = timers \cup (pending \ due)
  /\ phase' = "up"
  /\ UNCHANGED <<histVars, storeVars, delete_jobs, now, nrestart, force_channels,
                 uploadVars, fin, st, chat>>

\* ------------------------------------------------------------ specifications
\* The whole program: every handler, every input.
Next ==
  \/ \E u \in Users, e \in BOOLEAN : cmd_upload(u, e)
  \/ \E u \in Users : cmd_cancel(u)
  \/ \E u \in Users : cmd_finalize(u)
  \/ \E u \in Users, c \in {0, 1} : choose_protect(u, c)
  \/ \E u \in Users, k \in Kinds : catch_all_store_uploads(u, k)
  \/ \E txt \in Replies, hdr \in {"ok", "ChatNotFound"} : receive_autodel_minutes(txt, hdr)
  \/ \E t \in 1 .. MaxFinalize : FinInsert(t)
  \/ \E t \in 1 .. MaxFinalize, ok \in BOOLEAN : FinCopy(t, ok)
  \/ \E t \in 1 .. MaxFinalize : FinLoopExit(t)
  \/ \E t \in 1 .. MaxFinalize, backup \in {"sent", "failed"} : FinEnd(t, backup)
  \/ \E t \in 1 .. MaxFinalize : FinInsertFails(t)
  \/ \E t \in 1 .. MaxFinalize : FinUpdateFails(t)
  \/ \E u \in Users, sid \in Tokens : cmd_revoke(u, sid)
  \/ \E u \in Users, sid \in Tokens : cmd_del_session(u, sid)
  \/ \E u \in Users, none \in BOOLEAN : cmd_setforcechannel(u, none)
  \/ \E u \in Users, token \in Tokens : cmd_start(u, token)
  \/ \E r \in 1 .. MaxStarts : StartGate(r)
  \/ \E r \in 1 .. MaxStarts, vault \in BOOLEAN : StartFiles(r, vault)
  \/ \E r \in 1 .. MaxStarts, res \in {"copy", "raw", "fail"} : StartSend(r, res)
  \/ \E r \in 1 .. MaxStarts : StartJob(r)
  \/ \E r \in 1 .. MaxStarts : StartArm(r)
  \/ \E r \in 1 .. MaxStarts :
       \E outs \in [1 .. Min(force_channels, ForcedSlice) -> Lookups] : cb_retry_handler(r, outs)
  \/ Tick
  \/ \E j \in 1 .. MaxStarts : TimerFire(j)
  \/ \E k \in 1 .. (MaxStarts * (2 * MaxRestarts + 2)), deleted \in BOOLEAN :
       ExecDelete(k, deleted)
  \/ \E k \in 1 .. (MaxStarts * (2 * MaxRestarts + 2)) : ExecDone(k)
  \/ \E keep \in BOOLEAN : Crash(keep)
  \/ \E run \in SUBSET (1 .. MaxStarts) : SchedulerStart(run)
  \/ restore_pending_jobs_and_schedule

Spec == Init /\ [][Next]_vars

\* The stores a finished, undisturbed finalize leaves: one session of the owner
\* with its file rows in the order of the staged messages.
RECURSIVE StoredFiles(_, _, _)
StoredFiles(tbl, sid, kinds) ==
  IF kinds = << >> THEN tbl
  ELSE StoredFiles(add_file_sync(tbl, sid, FileType([kind |-> Head(kinds)], FALSE),
                                 NextRowId({f.id : f \in tbl})),
                   sid, Tail(kinds))

KindSeqs == UNION {[1 .. n -> Kinds] : n \in 0 .. MaxItems}

\* The process starts over a store that holds one finalized session.
InitDeliver ==
  /\ \E protect \in BOOLEAN, mins \in {0, 1}, kinds \in KindSeqs :
       /\ sessions = insert_session_sync(<< >>, OWNER_ID, protect, mins)
       /\ files = StoredFiles({}, 1, kinds)
  /\ delete_jobs = << >>
  /\ timers = {}
  /\ force_channels = 0
  /\ active_uploads = NoBuffer
  /\ bufs = << >>
  /\ fin = << >>
  /\ st = << >>
  /\ ex = << >>
  /\ chat = [u \in Users |-> << >>]
  /\ nmsg = 0
  /\ nup = 0
  /\ now = 0
  /\ phase = "up"
  /\ nrestart = 0
  /\ was_revoked = {}
  /\ minted = DOMAIN sessions
  /\ creator = [sid \in DOMAIN sessions |-> 0]
  /\ reported = [sid \in DOMAIN sessions |-> "sent"]
  /\ boot_time = 0

\* Deliveries of a finalized session, with the owner's commands on it.
NextDeliver ==
  \/ \E u \in Users, sid \in Tokens : cmd_revoke(u, sid)
  \/ \E u \in Users, sid \in Tokens : cmd_del_session(u, sid)
  \/ \E u \in Users, none \in BOOLEAN : cmd_setforcechannel(u, none)
  \/ \E u \in Users, token \in Tokens : cmd_start(u, token)
  \/ \E r \in 1 .. MaxStarts : StartGate(r)
  \/ \E r \in 1 .. MaxStarts, vault \in BOOLEAN : StartFiles(r, vault)
  \/ \E r \in 1 .. MaxStarts, res \in {"copy", "raw", "fail"} : StartSend(r, res)
  \/ \E r \in 1 .. MaxStarts : StartJob(r)
  \/ \E r \in 1 .. MaxStarts : StartArm(r)
  \/ \E r \in 1 .. MaxStarts :
       \E outs \in [1 .. Min(force_channels, ForcedSlice) -> Lookups] : cb_retry_handler(r, outs)

DeliverSpec == InitDeliver /\ [][NextDeliver]_vars

\* Two upload sessions and their finalizes against the owner's /del_session and
\* /revoke of the first session id and a delivery of it: media only, no
\* retention, every delivery send works.
NextRace ==
  \/ cmd_upload(OWNER_ID, FALSE)
  \/ cmd_finalize(OWNER_ID)
  \/ catch_all_store_uploads(OWNER_ID, "photo")
  \/ receive_autodel_minutes([number |-> TRUE, tenths |-> -5], "ok")
  \/ \E t \in 1 .. MaxFinalize : FinInsert(t)
  \/ \E t \in 1 .. MaxFinalize, ok \in BOOLEAN : FinCopy(t, ok)
  \/ \E t \in 1 .. MaxFinalize : FinLoopExit(t)
  \/ \E t \in 1 .. MaxFinalize, backup \in {"sent", "failed"} : FinEnd(t, backup)
  \/ cmd_revoke(OWNER_ID, NextRowId({}))
  \/ cmd_del_session(OWNER_ID, NextRowId({}))
  \/ cmd_start(OWNER_ID + 1, NextRowId({}))
  \/ \E r \in 1 .. MaxStarts : StartGate(r)
  \/ \E r \in 1 .. MaxStarts : StartFiles(r, TRUE)
  \/ \E r \in 1 .. MaxStarts : StartSend(r, "copy")
  \/ \E r \in 1 .. MaxStarts : StartJob(r)

RaceSpec == Init /\ [][NextRace]_vars

\* The upload flow alone: every update of the flow from either user, a store
\* write of the finalize that fails, and the session commands from the other user.  The owner sends a retention reply
\* only when no finalize is running (RaceSpec has the concurrent ones).
NextUpload ==
  \/ \E u \in Users, exclude_text \in BOOLEAN : cmd_upload(u, exclude_text)
  \/ \E u \in Users : cmd_cancel(u)
  \/ \E u \in Users : cmd_finalize(u)
  \/ \E u \in Users, choice \in {0, 1} : choose_protect(u, choice)
  \/ \E u \in Users, kind \in Kinds : catch_all_store_uploads(u, kind)
  \/ /\ \A t \in DOMAIN fin : fin[t].pc = "done"
     /\ \E txt \in Replies, hdr \in {"ok", "ChatNotFound"} :
          receive_autodel_minutes(txt, hdr)
  \/ \E t \in 1 .. MaxFinalize : FinInsert(t)
  \/ \E t \in 1 .. MaxFinalize, ok \in BOOLEAN : FinCopy(t, ok)
  \/ \E t \in 1 .. MaxFinalize : FinLoopExit(t)
  \/ \E t \in 1 .. MaxFinalize, backup \in {"sent", "failed"} : FinEnd(t, backup)
  \/ \E t \in 1 .. MaxFinalize : FinInsertFails(t)
  \/ \E t \in 1 .. MaxFinalize : FinUpdateFails(t)
  \/ cmd_revoke(OWNER_ID + 1, NextRowId({}))
  \/ cmd_del_session(OWNER_ID + 1, NextRowId({}))

UploadSpec == Init /\ [][NextUpload]_vars

\* The process starts over a store that holds one finalized session of media
\* files with a retention of none, one or two minutes.
InitSched ==
  /\ \E mins \in {0, 1, 2}, n \in 1 .. MaxItems :
       /\ sessions = insert_session_sync(<< >>, OWNER_ID, FALSE, mins)
       /\ files = StoredFiles({}, 1, [i \in 1 .. n |-> "photo"])
  /\ delete_jobs = << >>
  /\ timers = {}
  /\ force_channels = 0
  /\ active_uploads = NoBuffer
  /\ bufs = << >>
  /\ fin = << >>
  /\ st = << >>
  /\ ex = << >>
  /\ chat = [u \in Users |-> << >>]
  /\ nmsg = 0
  /\ nup = 0
  /\ now = 0
  /\ phase = "up"
  /\ nrestart = 0
  /\ was_revoked = {}
  /\ minted = DOMAIN sessions
  /\ creator = [sid \in DOMAIN sessions |-> 0]
  /\ reported = [sid \in DOMAIN sessions |-> "sent"]
  /\ boot_time = 0

ExecIds == 1 .. (MaxStarts * (2 * MaxRestarts + 2))

\* Deliveries of that session to a user, the clock, the delete jobs and restarts.
NextSched ==
  \/ cmd_start(OWNER_ID + 1, NextRowId({}))
  \/ \E r \in 1 .. MaxStarts : StartGate(r)
  \/ \E r \in 1 .. MaxStarts : StartFiles(r, TRUE)
  \/ \E r \in 1 .. MaxStarts, res \in {"copy", "fail"} : StartSend(r, res)
  \/ \E r \in 1 .. MaxStarts : StartJob(r)
  \/ \E r \in 1 .. MaxStarts : StartArm(r)
  \/ Tick
  \/ \E j \in 1 .. MaxStarts : TimerFire(j)
  \/ \E k \in ExecIds, deleted \in BOOLEAN : ExecDelete(k, deleted)
  \/ \E k \in ExecIds : ExecDone(k)
  \/ \E keep \in BOOLEAN : Crash(keep)
  \/ \E run \in SUBSET (1 .. MaxStarts) : SchedulerStart(run)
  \/ restore_pending_jobs_and_schedule

SchedSpec == InitSched /\ [][NextSched]_vars

\* The same, where the event loop runs every task that is ready, the clock
\* runs, and a stopped process is started again; a stop itself is never forced.
SchedLive ==
  /\ InitSched /\ [][NextSched]_vars
  /\ WF_vars(Tick)
  /\ \A r \in 1 .. MaxStarts : WF_vars(StartArm(r))
  /\ \A j \in 1 .. MaxStarts : WF_vars(TimerFire(j))
  /\ \A k \in ExecIds : WF_vars(\E deleted \in BOOLEAN : ExecDelete(k, deleted))
  /\ \A k \in ExecIds : WF_vars(ExecDone(k))
  /\ WF_vars(\E run \in SUBSET (1 .. MaxStarts) : SchedulerStart(run))
  /\ WF_vars(restore_pending_jobs_and_schedule)

\* The same, with the owner's /revoke and /del_session of the session.
NextPurge ==
  \/ NextSched
  \/ cmd_revoke(OWNER_ID, NextRowId({}))
  \/ cmd_del_session(OWNER_ID, NextRowId({}))

PurgeLive ==
  /\ InitSched /\ [][NextPurge]_vars
  /\ WF_vars(Tick)
  /\ \A r \in 1 .. MaxStarts : WF_vars(StartArm(r))
  /\ \A j \in 1 .. MaxStarts : WF_vars(TimerFire(j))
  /\ \A k \in ExecIds : WF_vars(\E deleted \in BOOLEAN : ExecDelete(k, deleted))
  /\ \A k \in ExecIds : WF_vars(ExecDone(k))
  /\ WF_vars(\E run \in SUBSET (1 .. MaxStarts) : SchedulerStart(run))
  /\ WF_vars(restore_pending_jobs_and_schedule)

\* Two deliveries of that session, one to each user, that run concurrently,
\* with the clock and the delete jobs; every send and every delete works.
NextPair ==
  \/ \E u \in Users :
       /\ Len(st) < MaxPairStarts
       /\ \A r \in DOMAIN st : st[r].user # u
       /\ StartRequest(u, NextRowId({}))
  \/ \E r \in 1 .. MaxPairStarts : StartGate(r)
  \/ \E r \in 1 .. MaxPairStarts : StartFiles(r, TRUE)
  \/ \E r \in 1 .. MaxPairStarts : StartSend(r, "copy")
  \/ \E r \in 1 .. MaxPairStarts : StartJob(r)
  \/ \E r \in 1 .. MaxPairStarts : StartArm(r)
  \/ Tick
  \/ \E j \in 1 .. MaxPairStarts : TimerFire(j)
  \/ \E k \in 1 .. MaxPairStarts : ExecDelete(k, TRUE)
  \/ \E k \in 1 .. MaxPairStarts : ExecDone(k)

PairSpec == InitSched /\ [][NextPair]_vars

\* ------------------------------------------------------------------ claims
\* The messages request r has put into its requester's chat, in order.
SentBy(r) == SelectSeq(chat[st[r].user], LAMBDA m : m.req = r)

Delivers(r) == st[r].delivered # << >> \/ SentBy(r) # << >> \/ st[r].job # 0

\* C1: a delivery sends the session's files in the relative order in which the
\* owner staged them (the order of their message ids in the owner's chat): no
\* item is sent after one that was staged later.
C1_DeliveryInStagedOrder ==
  \A r \in DOMAIN st :
    \A i, j \in DOMAIN SentBy(r) : i < j => SentBy(r)[i].item <= SentBy(r)[j].item

\* C2: a /start for a session id that /revoke has revoked is refused, and no
\* step turns a row's revoked flag from true to false.
C2_RevokedStaysRefused ==
  [][/\ \A r \in DOMAIN st' :
          (r \notin DOMAIN st /\ st'[r].token \in was_revoked) => st'[r].pc = "refused"
     /\ \A sid \in DOMAIN sessions \cap DOMAIN sessions' :
          sessions[sid].revoked => sessions'[sid].revoked]_vars

\* C3: when a required channel cannot be resolved, or its membership lookup ends
\* in an error, the request delivers nothing and creates no delete job.
C3_GateFailsClosed ==
  \A r \in DOMAIN st :
    (\E i \in DOMAIN st[r].look : st[r].look[i] \in {"unresolved", "error", "BadRequest"})
      => (~Delivers(r) /\ st[r].pc \in {"mustjoin", "unverifiable"})

C3_Witness ==
  \E r \in DOMAIN st :
    /\ st[r].pc = "unverifiable"
    /\ \E i \in DOMAIN st[r].look : st[r].look[i] \in {"unresolved", "error"}

\* C4: a request that delivers was answered "member" by every configured
\* required channel, and one answered "left" by any of them delivers nothing.
C4_DeliveryOnlyToMembers ==
  \A r \in DOMAIN st :
    /\ Delivers(r) => \A i \in DOMAIN st[r].look : st[r].look[i] = "member"
    /\ (\E i \in DOMAIN st[r].look : st[r].look[i] = "left") => ~Delivers(r)

C4_Witness ==
  \E r \in DOMAIN st :
    /\ st[r].look # << >>
    /\ \A i \in DOMAIN st[r].look : st[r].look[i] = "member"
    /\ SentBy(r) # << >>

\* C5: every item of a protect=true session sent to a requester other than the
\* owner is sent with content protection.
C5_ProtectedForOthers ==
  \A r \in DOMAIN st :
    (st[r].user # OWNER_ID /\ st[r].s # NoSession /\ st[r].s.protect)
      => \A i \in DOMAIN SentBy(r) : SentBy(r)[i].protected

\* C6: every item sent to the owner is sent without content protection.
C6_OwnerUnprotected ==
  \A r \in DOMAIN st :
    st[r].user = OWNER_ID => \A i \in DOMAIN SentBy(r) : ~SentBy(r)[i].protected

C6_Witness ==
  \E r \in DOMAIN st :
    /\ st[r].user = OWNER_ID /\ st[r].s # NoSession /\ st[r].s.protect
    /\ \E i \in DOMAIN SentBy(r) : SentBy(r)[i].path = "copy"

\* The original_msg_id column of a list of file rows; the message ids of a list
\* of stored messages.
OriginalIds(rows) == [i \in DOMAIN rows |-> rows[i].original_msg_id]
MessageIds(msgs) == [i \in DOMAIN msgs |-> msgs[i].id]

\* C10: when a copy failed during a finalize, the session it leaves holds one
\* file row for each other message the loop went through, in their order.
C10_FailedCopySkipped ==
  \A t \in DOMAIN fin :
    (fin[t].pc = "end" /\ fin[t].failed # {} /\ fin[t].sid \in DOMAIN sessions)
      => OriginalIds(get_session_files_sync(fin[t].sid))
           = SelectSeq(MessageIds(SubSeq(bufs[fin[t].buf].messages, 1, fin[t].idx - 1)),
                       LAMBDA id : id \notin fin[t].failed)

\* The executions of job j that the start of the process numbered nrestart began
\* on its own: by the scheduler from its job store, or by the restore.
RecoveryRuns(j) ==
  {k \in DOMAIN ex : ex[k].job = j /\ ex[k].boot = nrestart /\ ex[k].src # "timer"}

\* C7: executing the same delete job a second time is a no-op: an execution
\* issues a delete call only while the persisted job row is not yet done.
C7_SecondExecutionNoOp ==
  [][\A k \in DOMAIN ex :
       ex'[k].idx > ex[k].idx => delete_jobs[ex[k].job].status # "done"]_vars

\* C8: a scheduled job whose run date is past when the process restarts is
\* executed exactly once by the startup recovery: never twice, and once the
\* recovery is over, at least once.
C8_RecoveryExecutesOnce ==
  \A j \in DOMAIN delete_jobs :
    /\ Cardinality(RecoveryRuns(j)) <= 1
    /\ (/\ phase = "up" /\ nrestart > 0
        /\ delete_jobs[j].status = "scheduled"
        /\ delete_jobs[j].run_at <= boot_time) => RecoveryRuns(j) # {}

\* C9: a scheduled delete job is eventually executed (its row becomes done),
\* restarts between the scheduling and the run date notwithstanding, when the
\* process is started again after each stop.
C9_ScheduledEventuallyDone ==
  \A j \in 1 .. MaxStarts :
    (j \in DOMAIN delete_jobs) ~>
      (j \in DOMAIN delete_jobs /\ delete_jobs[j].status = "done")

\* A job scheduled before a restart was run at its date by the restarted
\* process, and is done.
C9_Witness ==
  \E k \in DOMAIN ex :
    /\ ex[k].pc = "done" /\ ex[k].src = "timer" /\ ex[k].boot > 0
    /\ delete_jobs[ex[k].job].status = "done"
    /\ delete_jobs[ex[k].job].run_at > boot_time

\* C11: the owner has at most one staging buffer, and /upload leaves an empty
\* one: right after it the buffer holds no item, no finalize request and no
\* protect choice, and no item of an earlier buffer ever shows up in it.
C11_UploadLeavesEmptyBuffer ==
  /\ [](/\ active_uploads \in {NoBuffer} \cup DOMAIN bufs
        /\ \A b \in DOMAIN bufs \ {active_uploads} :
             active_uploads # NoBuffer =>
               \A i \in DOMAIN bufs[b].messages, j \in DOMAIN bufs[active_uploads].messages :
                 bufs[b].messages[i].id # bufs[active_uploads].messages[j].id)
  /\ [][nup' # nup =>
          /\ active_uploads' \in DOMAIN bufs'
          /\ bufs'[active_uploads'].messages = << >>
          /\ ~bufs'[active_uploads'].finalize_requested
          /\ bufs'[active_uploads'].protect_choice = -1]_vars

\* After a second /upload the buffer is empty although items were staged and
\* the finalize prompt was answered under the first one, which a running
\* finalize still holds.
C11_Witness ==
  /\ nup = 2 /\ active_uploads = 2
  /\ bufs[2].messages = << >>
  /\ \E b \in DOMAIN bufs : /\ b # 2 /\ bufs[b].messages # << >>
                            /\ bufs[b].finalize_requested /\ bufs[b].protect_choice = 1

\* C12: the token a finalize mints (the id in its deep link) has never been the
\* token of another session, deleted sessions included.
C12_TokenNeverReused ==
  [][\A t \in DOMAIN fin :
       (fin[t].pc = "insert" /\ fin'[t].pc = "loop") => fin'[t].sid \notin minted]_vars

\* C13: the token in the link of a newly finalized session is not its internal
\* sequential id, and is not the value the ids of the sessions created before
\* determine (the largest id in the table plus one).
C13_TokenOpaque ==
  [][\A t \in DOMAIN fin :
       (fin[t].pc = "insert" /\ fin'[t].pc = "loop")
         => /\ DeepLinkToken(fin'[t].sid) # fin'[t].sid
            /\ DeepLinkToken(fin'[t].sid) # NextRowId(DOMAIN sessions)]_vars

\* The ids (positions in the requester's chat) of the messages request r sent,
\* in the order they were sent.
RECURSIVE SentIds(_, _)
SentIds(r, n) ==
  IF n = 0 THEN << >>
  ELSE IF chat[st[r].user][n].req = r THEN Append(SentIds(r, n - 1), n)
       ELSE SentIds(r, n - 1)

\* C14: the step that ends the delivery loop of a request writes a delete job
\* if and only if the session's retention is above 0 and the request delivered
\* something; the job lists the delivered message ids in delivery order, targets
\* the requester's chat and is due the retention after that time.
C14_JobIffRetentionAndDelivered ==
  [][\A r \in DOMAIN st :
       (st[r].pc = "send" /\ st'[r].pc \in {"arm", "done"})
         => LET made == DOMAIN delete_jobs' \ DOMAIN delete_jobs
                ids == SentIds(r, Len(chat[st[r].user]))
            IN /\ (made # {}) <=> (st[r].s.auto_delete_minutes > 0 /\ ids # << >>)
               /\ \A j \in made :
                    /\ made = {j} /\ st'[r].job = j
                    /\ delete_jobs'[j].message_ids = ids
                    /\ delete_jobs'[j].target_chat_id = st[r].user
                    /\ delete_jobs'[j].run_at = now + st[r].s.auto_delete_minutes
                    /\ delete_jobs'[j].status = "scheduled"
                    /\ delete_jobs'[j].session_id = st[r].token]_vars

\* A delivery in which one send failed and one worked has written its job,
\* after the clock has moved.
C14_Witness ==
  \E r \in DOMAIN st :
    /\ st[r].job \in DOMAIN delete_jobs
    /\ Len(delete_jobs[st[r].job].message_ids) < Len(st[r].files)
    /\ delete_jobs[st[r].job].run_at > st[r].s.auto_delete_minutes

InvalidReply(txt) ==
  \/ ~txt.number
  \/ txt.tenths % 10 # 0
  \/ txt.tenths < MIN_AUTO_DELETE * 10
  \/ txt.tenths > MAX_AUTO_DELETE * 10

\* C16: a malformed or out-of-range retention reply starts no finalize (no
\* session is created) and leaves the staging buffer as it was.
C16_InvalidReplyChangesNothing ==
  [][\A txt \in Replies, hdr \in {"ok", "ChatNotFound"} :
       (InvalidReply(txt) /\ receive_autodel_minutes(txt, hdr))
         => UNCHANGED <<sessions, files, fin, active_uploads, bufs>>]_vars

\* C17: an update from a user other than the owner (a command, a message, a
\* press of a Protect button, /revoke, /del_session) changes neither the staging
\* buffer with its finalize request and protect choice, nor a session or file row.
C17_OnlyOwnerChangesState ==
  [][\A u \in Users \ {OWNER_ID} :
       (\/ \E exclude_text \in BOOLEAN : cmd_upload(u, exclude_text)
        \/ cmd_cancel(u)
        \/ cmd_finalize(u)
        \/ \E choice \in {0, 1} : choose_protect(u, choice)
        \/ \E kind \in Kinds : catch_all_store_uploads(u, kind)
        \/ \E sid \in Tokens : cmd_revoke(u, sid)
        \/ \E sid \in Tokens : cmd_del_session(u, sid))
         => UNCHANGED <<active_uploads, bufs, sessions, files>>]_vars

\* C18: a retention reply posts the header and goes on to create the session
\* only when there is an active buffer that holds at least one staged item.
C18_FinalizeNeedsItems ==
  [][Len(fin') > Len(fin)
       => (active_uploads # NoBuffer /\ bufs[active_uploads].messages # << >>)]_vars

\* C19: a Retry request made after a failed gate delivers the session's files
\* itself when the requester passes the gate now and the session is there,
\* unrevoked, with files.
C19_RetryDelivers ==
  \A r \in DOMAIN st :
    (/\ st[r].retry.pressed
     /\ GateVerdict(st[r].retry.look) = "files"
     /\ get_session_sync(st[r].token) # NoSession
     /\ ~get_session_sync(st[r].token).revoked
     /\ get_session_files_sync(st[r].token) # << >>)
      => SentBy(r) # << >>

\* The message ids of a job frame, as a set.
FrameIds(e) == {e.message_ids[i] : i \in DOMAIN e.message_ids}

\* C20: a step of an execution of a delete job changes no session row and no
\* file row, and in the chats it changes nothing but the deleted mark of a
\* message of the job in the job's target chat (the requester's).
C20_ExecutionTouchesOnlyTargetChat ==
  [][\A k \in DOMAIN ex :
       (ex[k].pc = "run" /\ ex'[k] # ex[k] /\ phase' = phase)
         => /\ UNCHANGED <<sessions, files>>
            /\ ex[k].target_chat_id = delete_jobs[ex[k].job].target_chat_id
            /\ \A u \in Users :
                 /\ Len(chat'[u]) = Len(chat[u])
                 /\ \A i \in DOMAIN chat[u] :
                      chat'[u][i] # chat[u][i]
                        => /\ u = ex[k].target_chat_id /\ i \in FrameIds(ex[k])
                           /\ chat'[u][i] = [chat[u][i] EXCEPT !.deleted = TRUE]]_vars

\* A job was executed and deleted a message, and its session is still there
\* with its files.
C20_Witness ==
  \E k \in DOMAIN ex :
    /\ ex[k].pc = "done"
    /\ \E i \in FrameIds(ex[k]) : chat[ex[k].target_chat_id][i].deleted
    /\ get_session_sync(delete_jobs[ex[k].job].session_id) # NoSession
    /\ get_session_files_sync(delete_jobs[ex[k].job].session_id) # << >>

\* C21: a request never delivers from a file list that is shorter than the one
\* the finalize of that session has recorded: /start resolves a session only
\* once all its file rows are written.
C21_SessionAppearsComplete ==
  \A r \in DOMAIN st, t \in DOMAIN fin :
    (/\ st[r].pc \in {"arm", "done"} /\ st[r].s # NoSession
     /\ fin[t].pc \in {"loop", "end"} /\ fin[t].sid = st[r].token)
      => Len(st[r].files) = Len(get_session_files_sync(fin[t].sid))

\* The finalize that inserted session sid has returned.
Finalized(sid) ==
  /\ sid \in DOMAIN sessions
  /\ \/ creator[sid] = 0
     \/ creator[sid] \in DOMAIN fin /\ fin[creator[sid]].pc = "done"

\* C22: once the finalize of a session has returned, a step leaves its row as
\* it is but for the revoked flag, and leaves its file rows and their order as
\* they are, unless the step removes the session.
C22_FinalizedSessionImmutable ==
  [][\A sid \in DOMAIN sessions :
       (Finalized(sid) /\ sid \in DOMAIN sessions')
         => /\ sessions'[sid] = [sessions[sid] EXCEPT !.revoked = sessions'[sid].revoked]
            /\ get_session_files_sync(sid)' = get_session_files_sync(sid)]_vars

\* C23: when the insert of the session row or the deep-link update of a
\* finalize fails, the staging buffer stays as it was and the store holds no
\* session row that this finalize inserted.
C23_StoreFailureFailsCleanly ==
  [][\A t \in DOMAIN fin :
       (FinInsertFails(t) \/ FinUpdateFails(t))
         => /\ active_uploads' = active_uploads
            /\ active_uploads # NoBuffer => bufs'[active_uploads] = bufs[active_uploads]
            /\ \A sid \in DOMAIN sessions' : creator'[sid] # t]_vars

\* C24: an execution of a delete job goes through its message ids one by one,
\* whether the delete call worked or failed, and ends only after the last one,
\* with the job row marked done and the job's timer out of the job store.
C24_FailedDeleteDoesNotStopBatch ==
  [][\A k \in DOMAIN ex :
       /\ (ex[k].pc = "run" /\ ex'[k].pc = "run" /\ ex'[k] # ex[k])
            => /\ ex[k].idx <= Len(ex[k].message_ids)
               /\ ex'[k] = [ex[k] EXCEPT !.idx = @ + 1]
       /\ (ex[k].pc = "run" /\ ex'[k].pc = "done")
            => /\ ex[k].idx = Len(ex[k].message_ids) + 1
               /\ delete_jobs'[ex[k].job].status = "done"
               /\ ex[k].job \notin timers']_vars

\* The only execution of a job failed on the first message, deleted the second
\* and marked the job done.
C24_Witness ==
  \E k \in DOMAIN ex :
    /\ ex[k].pc = "done" /\ Len(ex[k].message_ids) >= 2
    /\ \A k2 \in DOMAIN ex : ex[k2].job = ex[k].job => k2 = k
    /\ ~chat[ex[k].target_chat_id][ex[k].message_ids[1]].deleted
    /\ chat[ex[k].target_chat_id][ex[k].message_ids[2]].deleted
    /\ delete_jobs[ex[k].job].status = "done" /\ ex[k].job \notin timers

\* C25: a turn of the delivery loop goes on to the next file whether its send
\* worked or failed, and the loop ends only after the last file; a failed send
\* adds nothing to the delivered ids, a send that worked adds the id of the
\* message it put in the requester's chat, and the job lists exactly these.
C25_FailedSendDoesNotAbort ==
  [][\A r \in DOMAIN st :
       /\ (st[r].pc = "send" /\ st'[r].pc = "send" /\ st'[r] # st[r])
            => /\ st[r].idx <= Len(st[r].files)
               /\ st'[r].idx = st[r].idx + 1
               /\ st'[r].delivered =
                    IF chat' = chat THEN st[r].delivered
                    ELSE Append(st[r].delivered, Len(chat'[st[r].user]))
               /\ chat' # chat =>
                    /\ chat'[st[r].user][Len(chat'[st[r].user])].req = r
                    /\ chat'[st[r].user][Len(chat'[st[r].user])].file
                         = st[r].files[st[r].idx].id
       /\ (st[r].pc = "send" /\ st'[r].pc \in {"arm", "done"})
            => /\ st[r].idx = Len(st[r].files) + 1
               /\ st'[r].job # 0 => delete_jobs'[st'[r].job].message_ids = st[r].delivered]_vars

\* A delivery of two files whose first send failed has sent the second file
\* and written a job with the id of that one message.
C25_Witness ==
  \E r \in DOMAIN st :
    /\ st[r].pc = "done" /\ Len(st[r].files) = 2
    /\ Len(SentBy(r)) = 1 /\ SentBy(r)[1].file = st[r].files[2].id
    /\ st[r].job \in DOMAIN delete_jobs
    /\ delete_jobs[st[r].job].message_ids = SentIds(r, Len(chat[st[r].user]))
    /\ Len(delete_jobs[st[r].job].message_ids) = 1

\* C26: of two deliveries of one session to two requesters, each sends the
\* session's whole file list in order; the job of each lists the ids of the
\* messages that delivery sent and targets its requester's chat; and a message
\* is deleted only by an execution of the job of the delivery that sent it.
C26_ConcurrentDeliveriesIndependent ==
  /\ \A r \in DOMAIN st :
       /\ st[r].pc \in {"send", "arm", "done"}
            => /\ st[r].files = get_session_files_sync(st[r].token)
               /\ \A i \in DOMAIN SentBy(r) : SentBy(r)[i].file = st[r].files[i].id
               /\ Len(SentBy(r)) = st[r].idx - 1
       /\ st[r].job # 0
            => /\ delete_jobs[st[r].job].target_chat_id = st[r].user
               /\ delete_jobs[st[r].job].message_ids = SentIds(r, Len(chat[st[r].user]))
               /\ \A r2 \in DOMAIN st : r2 # r => st[r2].job # st[r].job
  /\ \A u \in Users :
       \A i \in DOMAIN chat[u] :
         chat[u][i].deleted
           => \E k \in DOMAIN ex :
                /\ ex[k].job = st[chat[u][i].req].job
                /\ ex[k].target_chat_id = u /\ i \in FrameIds(ex[k])

\* Both deliveries ran interleaved, each sent two files and wrote its job, and
\* the job of one has deleted its messages while those of the other are there.
C26_Witness ==
  /\ Len(st) = 2 /\ st[1].user # st[2].user
  /\ \A r \in DOMAIN st : Len(SentBy(r)) = 2 /\ st[r].job # 0
  /\ st[1].job > st[2].job
  /\ \E u, v \in Users :
       /\ u # v
       /\ (\A i \in DOMAIN chat[u] : chat[u][i].deleted)
       /\ (\A i \in DOMAIN chat[v] : ~chat[v][i].deleted)

\* C27: once the startup recovery of a restarted process is over, every job row
\* that is scheduled and due later has its timer deljob_N in the job store
\* (unless the handler that just inserted the row is about to arm it), and no
\* timer is there for a row that is done.  The job store holds a job id once.
C27_TimersFollowJobRows ==
  (phase = "up" /\ nrestart > 0)
    => /\ \A j \in DOMAIN delete_jobs :
            (/\ delete_jobs[j].status = "scheduled" /\ delete_jobs[j].run_at > now
             /\ \A r \in DOMAIN st : ~(st[r].pc = "arm" /\ st[r].job = j))
              => j \in timers
       /\ \A j \in timers : j \in DOMAIN delete_jobs /\ delete_jobs[j].status # "done"

\* The process was stopped after a request had inserted its job row and before
\* it armed the timer; after the restart the timer is armed.
C27_Witness ==
  /\ phase = "up" /\ nrestart > 0
  /\ \E r \in DOMAIN st :
       /\ st[r].pc = "killed" /\ st[r].job \in DOMAIN delete_jobs
       /\ delete_jobs[st[r].job].status = "scheduled"
       /\ delete_jobs[st[r].job].run_at > now
       /\ st[r].job \in timers

C29_PromptSequenceValidated ==
  [][/\ Len(fin') > Len(fin)
          => /\ active_uploads # NoBuffer
             /\ bufs[active_uploads].finalize_requested
             /\ bufs[active_uploads].protect_choice # -1
     /\ \A u \in Users, choice \in {0, 1} :
          (choose_protect(u, choice) /\ bufs' # bufs)
            => bufs[active_uploads].finalize_requested]_vars

\* C30: the retention of every session row in the table is between
\* MIN_AUTO_DELETE and MAX_AUTO_DELETE minutes, whatever the retention replies
\* were (negative, fractional, no number, above the bound).
C30_RetentionWithinBound ==
  \A sid \in DOMAIN sessions :
    /\ sessions[sid].auto_delete_minutes >= MIN_AUTO_DELETE
    /\ sessions[sid].auto_delete_minutes <= MAX_AUTO_DELETE

\* Two sessions were persisted, from the replies "-0.5" and "10080.9".
C30_Witness ==
  \E s1, s2 \in DOMAIN sessions :
    /\ sessions[s1].auto_delete_minutes = MIN_AUTO_DELETE
    /\ sessions[s2].auto_delete_minutes = MAX_AUTO_DELETE

\* C31: when the backup at the end of a finalize fails, the finalize still ends
\* as it does otherwise: the session row and the file rows stay as they are, the
\* owner's staging buffer is cleared, and the reply gives the owner the link.
C31_BackupFailureNotFatal ==
  [][\A t \in DOMAIN fin :
       FinEnd(t, "failed")
         => /\ UNCHANGED <<sessions, files>>
            /\ fin[t].sid \in DOMAIN sessions'
            /\ active_uploads' = NoBuffer
            /\ fin[t].sid \in DOMAIN reported']_vars

\* A finalize whose backup failed has ended: its session is in the table with
\* a file row, no buffer is active, and its link was reported.
C31_Witness ==
  \E sid \in DOMAIN reported :
    /\ reported[sid] = "failed"
    /\ sid \in DOMAIN sessions /\ get_session_files_sync(sid) # << >>
    /\ active_uploads = NoBuffer

\* C32: a buffer started with exclude_text never holds a plain-text item; a
\* finalize of such a buffer writes no file row of type text; and a media item
\* the owner sends while a buffer is active is appended to it, whatever was
\* rejected before.
C32_ExcludedTextNeverStaged ==
  /\ [](\A b \in DOMAIN bufs :
          bufs[b].exclude_text
            => \A i \in DOMAIN bufs[b].messages : bufs[b].messages[i].kind # "text")
  /\ [][\A t \in DOMAIN fin :
          (fin[t].pc = "loop" /\ fin'[t].pc = "loop" /\ fin'[t].idx > fin[t].idx
           /\ bufs[fin[t].buf].exclude_text)
            => \A f \in files' \ files : f.file_type # "text"]_vars
  /\ [][(catch_all_store_uploads(OWNER_ID, "photo") /\ active_uploads # NoBuffer)
          => bufs'[active_uploads].messages
               = Append(bufs[active_uploads].messages, [id |-> nmsg + 1, kind |-> "photo"])]_vars

\* A buffer started with exclude_text was finalized with a media item in it:
\* the session has a file row, and none of type text.
C32_Witness ==
  \E t \in DOMAIN fin :
    /\ fin[t].pc = "end" /\ bufs[fin[t].buf].exclude_text
    /\ bufs[fin[t].buf].messages # << >>
    /\ get_session_files_sync(fin[t].sid) # << >>
    /\ \A f \in files : f.file_type # "text"

\* C33: a message of the owner that arrives while no buffer is active changes
\* nothing: no buffer, no stored item, no row; and only /upload makes a buffer
\* active.
C33_NoBufferNothingStored ==
  [][/\ \A kind \in Kinds :
          (catch_all_store_uploads(OWNER_ID, kind) /\ active_uploads = NoBuffer)
            => UNCHANGED <<active_uploads, bufs, nmsg, sessions, files>>
     /\ (active_uploads = NoBuffer /\ active_uploads' # NoBuffer) => nup' = nup + 1]_vars

\* No buffer is active, after the last /upload of the run and a finalize that
\* ended with its reply, and the owner has messages still to send.
C33_Witness ==
  /\ active_uploads = NoBuffer /\ bufs = << >>
  /\ nup = MaxUploads /\ nmsg < MaxItems
  /\ reported # << >>

\* C34: every file row refers to a session that is in the sessions table.
C34_FileRowsHaveSession ==
  \A f \in files : f.sid \in DOMAIN sessions

\* C35: no two finalizes that have inserted a session are at work on the same
\* staging buffer: one buffer gives one session and one link.
C35_OneSessionPerBuffer ==
  \A t1, t2 \in DOMAIN fin :
    (/\ t1 # t2
     /\ fin[t1].pc \in {"loop", "end"} /\ fin[t2].pc \in {"loop", "end"})
      => fin[t1].buf # fin[t2].buf

\* C36: the end of a finalize clears the buffer it was started on and no other:
\* a buffer that a later /upload made active stays active, with its items.
C36_FinalizeClearsOwnBuffer ==
  [][\A t \in DOMAIN fin, backup \in {"sent", "failed"} :
       (FinEnd(t, backup) /\ active_uploads # NoBuffer /\ active_uploads # fin[t].buf)
         => /\ active_uploads' = active_uploads
            /\ active_uploads \in DOMAIN bufs'
            /\ bufs'[active_uploads] = bufs[active_uploads]]_vars

\* C37: when the end of a finalize clears the buffer it was started on, the
\* loop of that finalize has gone through every item stored in the buffer: no
\* stored item is dropped without a copy having been tried for it.
C37_StoredItemsReachTheLoop ==
  [][\A t \in DOMAIN fin, backup \in {"sent", "failed"} :
       (FinEnd(t, backup) /\ active_uploads = fin[t].buf)
         => Len(bufs[fin[t].buf].messages) = fin[t].idx - 1]_vars

\* The session a job was made for has been revoked or deleted.
SessionGone(j) ==
  \/ delete_jobs[j].session_id \notin DOMAIN sessions
  \/ sessions[delete_jobs[j].session_id].revoked

\* C38: /revoke and /del_session leave the job rows, the timers and the running
\* executions as they are, and a job whose session was revoked or deleted is
\* still executed: its row becomes done.
C38_JobsOutliveTheirSession ==
  /\ [][(cmd_revoke(OWNER_ID, NextRowId({})) \/ cmd_del_session(OWNER_ID, NextRowId({})))
          => UNCHANGED <<delete_jobs, timers, ex, chat>>]_vars
  /\ \A j \in 1 .. MaxStarts :
       (j \in DOMAIN delete_jobs /\ SessionGone(j))
         ~> (j \in DOMAIN delete_jobs /\ delete_jobs[j].status = "done")

\* The execution of a job made for a session that is deleted by now has
\* deleted the first delivered message and tried them all; the row is not yet
\* marked done.
C38_Witness ==
  \E k \in DOMAIN ex :
    /\ ex[k].pc = "run" /\ ex[k].idx > Len(ex[k].message_ids)
    /\ delete_jobs[ex[k].job].status = "scheduled"
    /\ delete_jobs[ex[k].job].session_id \notin DOMAIN sessions
    /\ chat[ex[k].target_chat_id][ex[k].message_ids[1]].deleted

====
